---- MODULE Spec2Model ----
(***************************************************************************)
(* The shared-memory mailbox of latency_lab: a named region whose first    *)
(* 8 bytes are an atomic state cell and whose remaining bytes are the data *)
(* window, with the two-phase handshake of ShmemSender / ShmemReceiver.    *)
(*                                                                         *)
(* Every atomic access of the code (a load, a store or a compare_exchange  *)
(* of the state cell, a read or a write of the data window, a reading of   *)
(* the clock) is one step of the process that makes it; the steps of the   *)
(* processes interleave freely.                                            *)
(***************************************************************************)
EXTENDS Integers, Sequences, FiniteSets, TLC

(* ------------------------------------------------------------------ *)
(* Bounds of the model                                                 *)
(* ------------------------------------------------------------------ *)
MaxTime == 2   \* the clock runs over 0..MaxTime
MaxDur  == 1   \* bounded timeouts are Val(0)..Val(MaxDur)
MaxSpin == 2   \* a wait loop counts at most MaxSpin failed polls
MaxMsgs == 2   \* successful sends of one sender, successful receives of one receiver
MaxPings == 2  \* pings of the client
WindowSize == 20  \* the bytes of the data window of shmem_ping, its MESSAGE_SHMEM_SIZE

(* ------------------------------------------------------------------ *)
(* Constants of the program                                            *)
(* ------------------------------------------------------------------ *)
\* A region fresh from creation is zero-filled: its state cell holds 0.
STATE_UNINITIALIZED == 0
STATE_READY_TO_WRITE == 2
STATE_READY_TO_READ == 3

\* The payloads: the k-th message of a sender carries k, so that any loss, duplication
\* or reordering shows in the values received.
Values == 1..MaxMsgs
NoValue == 0

\* raw_sync::Timeout
Infinite == <<"Infinite">>
Val(d) == <<"Val", d>>
Timeouts == {Infinite} \cup {Val(d) : d \in 0..MaxDur}

\* A process that never opened a handle holds no region.
NoRegion == <<>>

VARIABLES
  link,     \* link[n]: the region the flink file n names, NoRegion when no file
  created,  \* the regions created so far
  state,    \* state[r]: the state cell of region r
  data,     \* data[r]: the data window of region r
  now,      \* the system clock
  pc,       \* pc[p]: where process p is in its code
  loc,      \* loc[p]: the locals of process p
  call,     \* call[p]: history, the clock and timeout of p's current call
  cas,      \* history: how many initialising compare_exchanges succeeded, and failed
  trace,    \* history: the calls that returned Ok, in order
  timeouts, \* history: timeouts[p], some call of p has returned Timeout
  dirty     \* history: dirty[p], p changed a state cell or a data window in its
            \* current (or, between calls, its last) call

vars == <<link, created, state, data, now, pc, loc, call, cas, trace, timeouts, dirty>>

(* ------------------------------------------------------------------ *)
(* Helpers                                                             *)
(* ------------------------------------------------------------------ *)
NoLocals ==
  [tx |-> NoRegion, rx |-> NoRegion, handle |-> "none", name |-> "none", ret |-> "none",
   state_before |-> STATE_UNINITIALIZED, timeout_at |-> {}, spin_count |-> 0,
   value |-> NoValue, request |-> NoValue, n |-> 0]

\* The locals of p once its call of send or receive has returned: they are gone.
Returned(p) ==
  [loc EXCEPT ![p].timeout_at = {}, ![p].spin_count = 0, ![p].value = NoValue]

\* The locals of p once its call of open_shmem has returned.
Opened(p) ==
  [loc EXCEPT ![p].handle = "none", ![p].name = "none", ![p].ret = "none",
              ![p].state_before = STATE_UNINITIALIZED]

NoCall == [start |-> 0, timeout |-> Infinite, polls |-> 0]

\* The region a process's handle h ("tx": its sender, "rx": its receiver) maps.
RegionOf(p, h) == IF h = "tx" THEN loc[p].tx ELSE loc[p].rx

\* A slip: Infinite is given a deadline too, the instant of the call.
TimeoutAt_InfiniteNow(timeout, t) ==
  IF timeout[1] = "Infinite" THEN {t} ELSE {t + timeout[2]}

\* timeout_at of send and receive: None for Infinite, Some(now + dur) for Val(dur).
TimeoutAt(timeout, t) ==
  IF timeout[1] = "Infinite" THEN {} ELSE {t + timeout[2]}

\* A slip in the comparison: the deadline itself already counts as passed.
Expired_AtDeadline(timeout_at, t) == \E at \in timeout_at : t >= at

\* `SystemTime::now() > at` of a wait loop whose timeout_at is Some(at).
Expired(timeout_at, t) == \E at \in timeout_at : t > at

Event(p, op, res, v) == [proc |-> p, op |-> op, res |-> res, val |-> v]

OkOf(op) == SelectSeq(trace, LAMBDA e : e.op = op /\ e.res = "Ok")
SentEvents == OkOf("send")
ReceivedEvents == OkOf("receive")
ValuesOf(s) == [i \in 1..Len(s) |-> s[i].val]
Sent == ValuesOf(SentEvents)
Received == ValuesOf(ReceivedEvents)

(* ------------------------------------------------------------------ *)
(* The clock                                                           *)
(* ------------------------------------------------------------------ *)
\* The pcs of the deadline check of a wait loop: the step from one of them to "ready"
\* is the return of Err(Timeout).
DeadlinePcs == {"send_deadline", "receive_deadline"}
TimeoutReturn(p) == pc[p] \in DeadlinePcs /\ pc'[p] = "ready"

\* The pcs at which a process is between two calls of the handles' operations.
CallPcs == {"start", "start_rx", "ready"}

\* The history variables timeouts and dirty, kept by every step.
History ==
  /\ timeouts' = [p \in DOMAIN pc |-> timeouts[p] \/ TimeoutReturn(p)]
  /\ dirty' = [p \in DOMAIN pc |->
                IF pc'[p] = pc[p] THEN dirty[p]
                ELSE IF pc[p] \in CallPcs THEN FALSE
                ELSE dirty[p] \/ state' # state \/ data' # data]

Tick ==
  /\ now < MaxTime
  /\ now' = now + 1
  /\ UNCHANGED <<link, created, state, data, pc, loc, call, cas, trace>>
  /\ History

(* ------------------------------------------------------------------ *)
(* open_shmem                                                          *)
(* ------------------------------------------------------------------ *)
\* ShmemSender::open / ShmemReceiver::open: the call of open_shmem(name, DEFAULT_SIZE)
\* for handle h by a process at `at`, which goes on at `ret` when the call returns.
OpenCall(p, at, h, n, ret) ==
  /\ pc[p] = at
  /\ loc' = [loc EXCEPT ![p].handle = h, ![p].name = n, ![p].ret = ret]
  /\ pc' = [pc EXCEPT ![p] = "open_create"]
  /\ UNCHANGED <<link, created, state, data, now, call, cas, trace>>
  /\ History

\* ShmemConf::new().size(size).flink(name).create(): creates the region and its link
\* file, or fails with LinkExists when the link file is there.
OpenCreate(p) ==
  /\ pc[p] = "open_create"
  /\ LET n == loc[p].name
         r == <<p, n>>
     IN IF link[n] = NoRegion
        THEN /\ link' = [link EXCEPT ![n] = r]
             /\ created' = created \cup {r}
             /\ loc' = [loc EXCEPT ![p][loc[p].handle] = r]
             /\ pc' = [pc EXCEPT ![p] = "open_load"]
        ELSE /\ pc' = [pc EXCEPT ![p] = "open_attach"]
             /\ UNCHANGED <<link, created, loc>>
  /\ UNCHANGED <<state, data, now, call, cas, trace>>
  /\ History

\* Err(LinkExists) => ShmemConf::new().flink(name).open().unwrap(): the unwrap panics
\* when the link file is gone by now.
OpenAttach(p) ==
  /\ pc[p] = "open_attach"
  /\ IF link[loc[p].name] = NoRegion
     THEN /\ pc' = [pc EXCEPT ![p] = "panic_open"]
          /\ loc' = loc
     ELSE /\ loc' = [loc EXCEPT ![p][loc[p].handle] = link[loc[p].name]]
          /\ pc' = [pc EXCEPT ![p] = "open_load"]
  /\ UNCHANGED <<link, created, state, data, now, call, cas, trace>>
  /\ History

\* A slip: the first of the two breaks is missing.
IsValidState_WriteOnly(s) == s = STATE_READY_TO_WRITE

\* A slip: the second of the two breaks is missing.
IsValidState_ReadOnly(s) == s = STATE_READY_TO_READ

\* The states open_shmem leaves untouched.
IsValidState(s) == s = STATE_READY_TO_READ \/ s = STATE_READY_TO_WRITE

\* let state_before = state.load(SeqCst), and the two breaks.
OpenLoad(p) ==
  /\ pc[p] = "open_load"
  /\ LET s == state[RegionOf(p, loc[p].handle)]
     IN IF IsValidState(s)
        THEN /\ loc' = Opened(p)
             /\ pc' = [pc EXCEPT ![p] = loc[p].ret]
        ELSE /\ loc' = [loc EXCEPT ![p].state_before = s]
             /\ pc' = [pc EXCEPT ![p] = "open_cas"]
  /\ UNCHANGED <<link, created, state, data, now, call, cas, trace>>
  /\ History

\* A slip: a plain store where the compare_exchange should be.
CompareExchange_Store(s, current, new) == <<TRUE, new>>

\* compare_exchange(current, new) on a cell holding s: <<succeeded, the cell after>>.
CompareExchange(s, current, new) ==
  IF s = current THEN <<TRUE, new>> ELSE <<FALSE, s>>

\* state.compare_exchange(state_before, STATE_READY_TO_WRITE, SeqCst, SeqCst).is_ok()
OpenCas(p) ==
  /\ pc[p] = "open_cas"
  /\ LET r == RegionOf(p, loc[p].handle)
         x == CompareExchange(state[r], loc[p].state_before, STATE_READY_TO_WRITE)
     IN /\ state' = [state EXCEPT ![r] = x[2]]
        /\ pc' = [pc EXCEPT ![p] = IF x[1] THEN loc[p].ret ELSE "open_load"]
        /\ loc' = IF x[1] THEN Opened(p) ELSE loc
        /\ cas' = IF x[1] THEN [cas EXCEPT !.ok = @ + 1] ELSE [cas EXCEPT !.failed = @ + 1]
  /\ UNCHANGED <<link, created, data, now, call, trace>>
  /\ History

(* ------------------------------------------------------------------ *)
(* ShmemSender::send                                                   *)
(* ------------------------------------------------------------------ *)
\* A slip: the sender waits only for the cell to be initialised.
SenderTurn_Initialised(s) == s # STATE_UNINITIALIZED

\* The negation of the wait loop's condition: the cell grants the sender its turn.
SenderTurn(s) == s = STATE_READY_TO_WRITE

\* A slip: the receiver waits only for the cell to be initialised.
ReceiverTurn_Initialised(s) == s # STATE_UNINITIALIZED

\* The negation of the wait loop's condition: the cell grants the receiver its turn.
ReceiverTurn(s) == s = STATE_READY_TO_READ

\* send(value, timeout): timeout_at is computed, spin_count = 0.
SendCall(p, v, timeout) ==
  /\ pc[p] = "ready"
  /\ loc[p].tx # NoRegion
  /\ Len(SentEvents) < MaxMsgs
  /\ loc' = [loc EXCEPT ![p].value = v, ![p].timeout_at = TimeoutAt(timeout, now),
                        ![p].spin_count = 0]
  /\ call' = [call EXCEPT ![p] = [start |-> now, timeout |-> timeout, polls |-> 0]]
  /\ pc' = [pc EXCEPT ![p] = "send_poll"]
  /\ UNCHANGED <<link, created, state, data, now, cas, trace>>
  /\ History

\* A slip: the deadline is looked at before the state, at the head of the loop.
SendPoll_DeadlineFirst(p) ==
  /\ pc[p] = "send_poll"
  /\ IF Expired(loc[p].timeout_at, now)
     THEN /\ pc' = [pc EXCEPT ![p] = "send_deadline"]
          /\ call' = call
     ELSE IF SenderTurn(state[loc[p].tx])
     THEN /\ pc' = [pc EXCEPT ![p] = "send_write"]
          /\ call' = call
     ELSE /\ loc[p].spin_count < MaxSpin
          /\ pc' = [pc EXCEPT ![p] = "send_deadline"]
          /\ call' = [call EXCEPT ![p].polls = @ + 1]
  /\ UNCHANGED <<link, created, state, data, now, loc, cas, trace>>
  /\ History

\* A slip: an `if` where the `while` should be, the sender polls once and goes on.
SendPoll_Once(p) ==
  /\ pc[p] = "send_poll"
  /\ pc' = [pc EXCEPT ![p] = "send_write"]
  /\ call' = IF SenderTurn(state[loc[p].tx]) THEN call ELSE [call EXCEPT ![p].polls = @ + 1]
  /\ UNCHANGED <<link, created, state, data, now, loc, cas, trace>>
  /\ History

\* while state.load(SeqCst) != STATE_READY_TO_WRITE
SendPoll(p) ==
  /\ pc[p] = "send_poll"
  /\ IF SenderTurn(state[loc[p].tx])
     THEN /\ pc' = [pc EXCEPT ![p] = "send_write"]
          /\ call' = call
     ELSE /\ loc[p].spin_count < MaxSpin
          /\ pc' = [pc EXCEPT ![p] = "send_deadline"]
          /\ call' = [call EXCEPT ![p].polls = @ + 1]
  /\ UNCHANGED <<link, created, state, data, now, loc, cas, trace>>
  /\ History

\* The body of the wait loop: return Err(Timeout) past the deadline, else spin_count += 1.
SendDeadline(p) ==
  /\ pc[p] = "send_deadline"
  /\ IF Expired(loc[p].timeout_at, now)
     THEN /\ loc' = Returned(p)
          /\ call' = [call EXCEPT ![p] = NoCall]
          /\ pc' = [pc EXCEPT ![p] = "ready"]
     ELSE /\ loc' = [loc EXCEPT ![p].spin_count = @ + 1]
          /\ pc' = [pc EXCEPT ![p] = "send_poll"]
          /\ call' = call
  /\ UNCHANGED <<link, created, state, data, now, cas, trace>>
  /\ History

\* *unsafe { &mut *(self.ctx.data as *mut T) } = value
SendWrite(p) ==
  /\ pc[p] = "send_write"
  /\ data' = [data EXCEPT ![loc[p].tx] = loc[p].value]
  /\ pc' = [pc EXCEPT ![p] = "send_store"]
  /\ UNCHANGED <<link, created, state, now, loc, call, cas, trace>>
  /\ History

\* state.store(STATE_READY_TO_READ, SeqCst); Ok(Success { value: (), spin_count })
SendStore(p) ==
  /\ pc[p] = "send_store"
  /\ state' = [state EXCEPT ![loc[p].tx] = STATE_READY_TO_READ]
  /\ loc' = Returned(p)
  /\ call' = [call EXCEPT ![p] = NoCall]
  /\ pc' = [pc EXCEPT ![p] = "ready"]
  /\ trace' = Append(trace, Event(p, "send", "Ok", loc[p].value))
  /\ UNCHANGED <<link, created, data, now, cas>>
  /\ History

(* ------------------------------------------------------------------ *)
(* ShmemReceiver::receive                                              *)
(* ------------------------------------------------------------------ *)
\* receive(timeout): timeout_at is computed, spin_count = 0.
ReceiveCall(p, timeout) ==
  /\ pc[p] = "ready"
  /\ loc[p].rx # NoRegion
  /\ Len(ReceivedEvents) < MaxMsgs
  /\ loc' = [loc EXCEPT ![p].value = NoValue, ![p].timeout_at = TimeoutAt(timeout, now),
                        ![p].spin_count = 0]
  /\ call' = [call EXCEPT ![p] = [start |-> now, timeout |-> timeout, polls |-> 0]]
  /\ pc' = [pc EXCEPT ![p] = "receive_poll"]
  /\ UNCHANGED <<link, created, state, data, now, cas, trace>>
  /\ History

\* while state.load(SeqCst) != STATE_READY_TO_READ
ReceivePoll(p) ==
  /\ pc[p] = "receive_poll"
  /\ IF ReceiverTurn(state[loc[p].rx])
     THEN /\ pc' = [pc EXCEPT ![p] = "receive_read"]
          /\ call' = call
     ELSE /\ loc[p].spin_count < MaxSpin
          /\ pc' = [pc EXCEPT ![p] = "receive_deadline"]
          /\ call' = [call EXCEPT ![p].polls = @ + 1]
  /\ UNCHANGED <<link, created, state, data, now, loc, cas, trace>>
  /\ History

\* A slip: the increment of spin_count is missing.
ReceiveDeadline_NoCount(p) ==
  /\ pc[p] = "receive_deadline"
  /\ IF Expired(loc[p].timeout_at, now)
     THEN /\ loc' = Returned(p)
          /\ call' = [call EXCEPT ![p] = NoCall]
          /\ pc' = [pc EXCEPT ![p] = "ready"]
     ELSE /\ loc' = loc
          /\ pc' = [pc EXCEPT ![p] = "receive_poll"]
          /\ call' = call
  /\ UNCHANGED <<link, created, state, data, now, cas, trace>>
  /\ History

\* A slip: the receiver that gives up hands the turn back to the sender.
ReceiveDeadline_Reset(p) ==
  /\ pc[p] = "receive_deadline"
  /\ IF Expired(loc[p].timeout_at, now)
     THEN /\ state' = [state EXCEPT ![loc[p].rx] = STATE_READY_TO_WRITE]
          /\ loc' = Returned(p)
          /\ call' = [call EXCEPT ![p] = NoCall]
          /\ pc' = [pc EXCEPT ![p] = "ready"]
     ELSE /\ loc' = [loc EXCEPT ![p].spin_count = @ + 1]
          /\ pc' = [pc EXCEPT ![p] = "receive_poll"]
          /\ UNCHANGED <<state, call>>
  /\ UNCHANGED <<link, created, data, now, cas, trace>>
  /\ History

\* The body of the wait loop: return Err(Timeout) past the deadline, else spin_count += 1.
ReceiveDeadline(p) ==
  /\ pc[p] = "receive_deadline"
  /\ IF Expired(loc[p].timeout_at, now)
     THEN /\ loc' = Returned(p)
          /\ call' = [call EXCEPT ![p] = NoCall]
          /\ pc' = [pc EXCEPT ![p] = "ready"]
     ELSE /\ loc' = [loc EXCEPT ![p].spin_count = @ + 1]
          /\ pc' = [pc EXCEPT ![p] = "receive_poll"]
          /\ call' = call
  /\ UNCHANGED <<link, created, state, data, now, cas, trace>>
  /\ History

\* let value = unsafe { (self.ctx.data as *mut T).read() }
ReceiveRead(p) ==
  /\ pc[p] = "receive_read"
  /\ loc' = [loc EXCEPT ![p].value = data[loc[p].rx]]
  /\ pc' = [pc EXCEPT ![p] = "receive_store"]
  /\ UNCHANGED <<link, created, state, data, now, call, cas, trace>>
  /\ History

\* A slip: the receiver stores its own state, and the turn never goes back.
ReceiveStore_WrongState(p) ==
  /\ pc[p] = "receive_store"
  /\ state' = [state EXCEPT ![loc[p].rx] = STATE_READY_TO_READ]
  /\ loc' = Returned(p)
  /\ call' = [call EXCEPT ![p] = NoCall]
  /\ pc' = [pc EXCEPT ![p] = "ready"]
  /\ trace' = Append(trace, Event(p, "receive", "Ok", loc[p].value))
  /\ UNCHANGED <<link, created, data, now, cas>>
  /\ History

\* state.store(STATE_READY_TO_WRITE, SeqCst); Ok(Success { value, spin_count })
ReceiveStore(p) ==
  /\ pc[p] = "receive_store"
  /\ state' = [state EXCEPT ![loc[p].rx] = STATE_READY_TO_WRITE]
  /\ loc' = Returned(p)
  /\ call' = [call EXCEPT ![p] = NoCall]
  /\ pc' = [pc EXCEPT ![p] = "ready"]
  /\ trace' = Append(trace, Event(p, "receive", "Ok", loc[p].value))
  /\ UNCHANGED <<link, created, data, now, cas>>
  /\ History

(* ------------------------------------------------------------------ *)
(* One channel "x": a sender process and a receiver process, each      *)
(* opening its handle and then calling send / receive again and again, *)
(* with any timeout.                                                   *)
(* ------------------------------------------------------------------ *)
Snd == "snd"
Rcv == "rcv"
X == "x"

Init ==
  /\ link = [n \in {X} |-> NoRegion]
  /\ created = {}
  /\ state = [r \in {Snd, Rcv} \X {X} |-> STATE_UNINITIALIZED]
  /\ data = [r \in {Snd, Rcv} \X {X} |-> NoValue]
  /\ now = 0
  /\ pc = [p \in {Snd, Rcv} |-> "start"]
  /\ loc = [p \in {Snd, Rcv} |-> NoLocals]
  /\ call = [p \in {Snd, Rcv} |-> NoCall]
  /\ cas = [ok |-> 0, failed |-> 0]
  /\ trace = <<>>
  /\ timeouts = [p \in {Snd, Rcv} |-> FALSE]
  /\ dirty = [p \in {Snd, Rcv} |-> FALSE]

Open(p) == OpenCreate(p) \/ OpenAttach(p) \/ OpenLoad(p) \/ OpenCas(p)

Send(p) == SendPoll(p) \/ SendDeadline(p) \/ SendWrite(p) \/ SendStore(p)

Receive(p) == ReceivePoll(p) \/ ReceiveDeadline(p) \/ ReceiveRead(p) \/ ReceiveStore(p)

SenderStep(ts) ==
  \/ OpenCall(Snd, "start", "tx", X, "ready")
  \/ Open(Snd)
  \/ \E v \in Values, t \in ts : v = Len(SentEvents) + 1 /\ SendCall(Snd, v, t)
  \/ Send(Snd)

ReceiverStep(ts) ==
  \/ OpenCall(Rcv, "start", "rx", X, "ready")
  \/ Open(Rcv)
  \/ \E t \in ts : ReceiveCall(Rcv, t)
  \/ Receive(Rcv)

Next == Tick \/ SenderStep(Timeouts) \/ ReceiverStep(Timeouts)

Spec == Init /\ [][Next]_vars

(* ------------------------------------------------------------------ *)
(* The same two processes calling with the Infinite timeout only, each *)
(* scheduled weakly fairly: a process that can take a step takes one.  *)
(* ------------------------------------------------------------------ *)
LiveNext == SenderStep({Infinite}) \/ ReceiverStep({Infinite})

LiveSpec ==
  /\ Init
  /\ [][LiveNext]_vars
  /\ WF_vars(SenderStep({Infinite}))
  /\ WF_vars(ReceiverStep({Infinite}))

(* ------------------------------------------------------------------ *)
(* The window shape of the handles: begin and end (commit)             *)
(* ------------------------------------------------------------------ *)
\* A slip: begin hands out the writable view without waiting for the turn.
SenderBegin_NoWait(p, at, next) ==
  /\ pc[p] = at
  /\ pc' = [pc EXCEPT ![p] = next]
  /\ UNCHANGED <<link, created, state, data, now, loc, call, cas, trace>>
  /\ History

\* sender.begin(Infinite): spins until the cell is READY_TO_WRITE, then hands out the
\* writable view of the data window together with the spin count.
SenderBegin(p, at, next) ==
  /\ pc[p] = at
  /\ IF state[loc[p].tx] = STATE_READY_TO_WRITE
     THEN /\ pc' = [pc EXCEPT ![p] = next]
          /\ loc' = loc
     ELSE /\ loc[p].spin_count < MaxSpin
          /\ loc' = [loc EXCEPT ![p].spin_count = @ + 1]
          /\ pc' = pc
  /\ UNCHANGED <<link, created, state, data, now, call, cas, trace>>
  /\ History

\* receiver.begin(Infinite): spins until the cell is READY_TO_READ, then hands out the
\* readable view of the data window together with the spin count.
ReceiverBegin(p, at, next) ==
  /\ pc[p] = at
  /\ IF state[loc[p].rx] = STATE_READY_TO_READ
     THEN /\ pc' = [pc EXCEPT ![p] = next]
          /\ loc' = loc
     ELSE /\ loc[p].spin_count < MaxSpin
          /\ loc' = [loc EXCEPT ![p].spin_count = @ + 1]
          /\ pc' = pc
  /\ UNCHANGED <<link, created, state, data, now, call, cas, trace>>
  /\ History

\* end() of a writable window, the commit: READY_TO_WRITE -> READY_TO_READ.
SenderEnd(p, at, next) ==
  /\ pc[p] = at
  /\ state' = [state EXCEPT ![loc[p].tx] = STATE_READY_TO_READ]
  /\ pc' = [pc EXCEPT ![p] = next]
  /\ loc' = [loc EXCEPT ![p].spin_count = 0]
  /\ trace' = Append(trace, Event(p, "send", "Ok", loc[p].value))
  /\ UNCHANGED <<link, created, data, now, call, cas>>
  /\ History

\* end() of a readable window, the commit: READY_TO_READ -> READY_TO_WRITE.
ReceiverEnd(p, at, next) ==
  /\ pc[p] = at
  /\ state' = [state EXCEPT ![loc[p].rx] = STATE_READY_TO_WRITE]
  /\ pc' = [pc EXCEPT ![p] = next]
  /\ loc' = [loc EXCEPT ![p].spin_count = 0]
  /\ trace' = Append(trace, Event(p, "receive", "Ok", loc[p].value))
  /\ UNCHANGED <<link, created, data, now, call, cas>>
  /\ History

(* ------------------------------------------------------------------ *)
(* One channel "x" whose sender uses the window shape and may drop a   *)
(* window it obtained without committing it; the receiver calls        *)
(* receive with any timeout.                                           *)
(* ------------------------------------------------------------------ *)
\* The call of sender.begin(Infinite) for the next message.
WindowCall(p, v) ==
  /\ pc[p] = "ready"
  /\ loc[p].tx # NoRegion
  /\ Len(SentEvents) < MaxMsgs
  /\ loc' = [loc EXCEPT ![p].value = v, ![p].spin_count = 0]
  /\ pc' = [pc EXCEPT ![p] = "window_begin"]
  /\ UNCHANGED <<link, created, state, data, now, call, cas, trace>>
  /\ History

\* The holder of the writable window writes its payload through the view.
WindowWrite(p) ==
  /\ pc[p] = "window_held"
  /\ data' = [data EXCEPT ![loc[p].tx] = loc[p].value]
  /\ pc' = [pc EXCEPT ![p] = "window_written"]
  /\ UNCHANGED <<link, created, state, now, loc, call, cas, trace>>
  /\ History

\* The holder of the writable window goes away without calling end().
WindowAbandon(p) ==
  /\ pc[p] \in {"window_held", "window_written"}
  /\ pc' = [pc EXCEPT ![p] = "abandoned"]
  /\ loc' = [loc EXCEPT ![p].spin_count = 0]
  /\ UNCHANGED <<link, created, state, data, now, call, cas, trace>>
  /\ History

WindowSenderStep ==
  \/ OpenCall(Snd, "start", "tx", X, "ready")
  \/ Open(Snd)
  \/ \E v \in Values : v = Len(SentEvents) + 1 /\ WindowCall(Snd, v)
  \/ SenderBegin(Snd, "window_begin", "window_held")
  \/ WindowWrite(Snd)
  \/ SenderEnd(Snd, "window_written", "ready")
  \/ WindowAbandon(Snd)

AbandonNext == Tick \/ WindowSenderStep \/ ReceiverStep(Timeouts)

AbandonSpec == Init /\ [][AbandonNext]_vars

(* ------------------------------------------------------------------ *)
(* The message envelope of shmem_ping                                  *)
(* ------------------------------------------------------------------ *)
\* A slip: to_be_bytes where to_le_bytes should be.
U32Le_BigEndian(v) ==
  <<(v \div 16777216) % 256, (v \div 65536) % 256, (v \div 256) % 256, v % 256>>

\* u32::to_le_bytes, of `len as u32`: the lengths here are below 2^31, which the cast
\* leaves as they are.
U32Le(v) == <<v % 256, (v \div 256) % 256, (v \div 65536) % 256, (v \div 16777216) % 256>>

\* u32::from_le_bytes.
ReadU32Le(b) == b[1] + 256 * b[2] + 65536 * b[3] + 16777216 * b[4]

\* The decimal digits of a number, as ASCII bytes.
RECURSIVE Digits(_)
Digits(v) == IF v < 10 THEN <<48 + v>> ELSE Digits(v \div 10) \o <<48 + (v % 10)>>

\* PingMessage { sent_at, index }: the instant as a number of clock ticks, the index
\* a u32. The numbers of the model stay below 2^31.
PingMessage(s, i) == [sent_at |-> s, index |-> i]

\* serde_json::to_string of a PingMessage, as bytes: the two fields in their order,
\* the text is "{" sent_at "," index "}" (the keys, which never vary, are left out).
ToJson(m) == <<123>> \o Digits(m.sent_at) \o <<44>> \o Digits(m.index) \o <<125>>

IsDigit(b) == 48 <= b /\ b <= 57

RECURSIVE ParseDigits(_)
ParseDigits(s) ==
  IF Len(s) = 1 THEN s[1] - 48
  ELSE 10 * ParseDigits(SubSeq(s, 1, Len(s) - 1)) + (s[Len(s)] - 48)

\* The text of a number: digits, no leading zero, and no more than 2147483647 (a
\* longer text is no number of the model).
IsNumber(s) ==
  /\ Len(s) \in 1..10
  /\ \A i \in 1..Len(s) : IsDigit(s[i])
  /\ (Len(s) > 1 => s[1] # 48)
  /\ Len(s) = 10
       => LET top == Digits(2147483647)
          IN \/ s = top
             \/ \E k \in 1..10 : s[k] < top[k] /\ \A j \in 1..(k - 1) : s[j] = top[j]

\* What stands for the Err of from_str: no message.
JsonError == [sent_at |-> -1, index |-> -1]

\* The text v is "{" number "," number "}", with the comma at position c.
IsRecordAt(v, c) ==
  /\ v[c] = 44
  /\ IsNumber(SubSeq(v, 2, c - 1))
  /\ IsNumber(SubSeq(v, c + 1, Len(v) - 1))

\* from_utf8(v).unwrap() and serde_json::from_str: the message, or JsonError for a
\* text that is no record.
FromJson(v) ==
  IF /\ Len(v) >= 5
     /\ v[1] = 123
     /\ v[Len(v)] = 125
     /\ \E c \in 3..(Len(v) - 2) : IsRecordAt(v, c)
  THEN LET c == CHOOSE c \in 3..(Len(v) - 2) : IsRecordAt(v, c)
       IN PingMessage(ParseDigits(SubSeq(v, 2, c - 1)), ParseDigits(SubSeq(v, c + 1, Len(v) - 1)))
  ELSE JsonError

\* window[from..from + Len(bytes)].copy_from_slice(bytes), positions counted from 0.
CopyInto(window, from, bytes) ==
  [i \in 1..Len(window) |->
     IF from < i /\ i <= from + Len(bytes) THEN bytes[i - from] ELSE window[i]]

(* ------------------------------------------------------------------ *)
(* shmem_ping_send and shmem_ping_receive                              *)
(* ------------------------------------------------------------------ *)
\* A slip: the length written counts the 4 bytes of the prefix too.
PingWriteLen_CountsPrefix(p) ==
  /\ pc[p] = "psend_len"
  /\ data' = [data EXCEPT ![loc[p].tx] = CopyInto(@, 0, U32Le(Len(ToJson(loc[p].value)) + 4))]
  /\ pc' = [pc EXCEPT ![p] = "psend_copy"]
  /\ UNCHANGED <<link, created, state, now, loc, call, cas, trace>>
  /\ History

\* write_u32_le(&mut &mut window[0..4], json.len() as u32)
PingWriteLen(p) ==
  /\ pc[p] = "psend_len"
  /\ data' = [data EXCEPT ![loc[p].tx] = CopyInto(@, 0, U32Le(Len(ToJson(loc[p].value))))]
  /\ pc' = [pc EXCEPT ![p] = "psend_copy"]
  /\ UNCHANGED <<link, created, state, now, loc, call, cas, trace>>
  /\ History

\* A slip: a copy that is not checked against the window, it copies what fits.
PingCopy_Unchecked(p) ==
  /\ pc[p] = "psend_copy"
  /\ data' = [data EXCEPT ![loc[p].tx] = CopyInto(@, 4, ToJson(loc[p].value))]
  /\ pc' = [pc EXCEPT ![p] = "psend_end"]
  /\ UNCHANGED <<link, created, state, now, loc, call, cas, trace>>
  /\ History

\* window[4..json.len() + 4].copy_from_slice(json): the slicing panics past the window.
PingCopy(p) ==
  /\ pc[p] = "psend_copy"
  /\ LET json == ToJson(loc[p].value)
     IN IF Len(json) + 4 > WindowSize
        THEN /\ pc' = [pc EXCEPT ![p] = "panic_copy"]
             /\ data' = data
        ELSE /\ data' = [data EXCEPT ![loc[p].tx] = CopyInto(@, 4, json)]
             /\ pc' = [pc EXCEPT ![p] = "psend_end"]
  /\ UNCHANGED <<link, created, state, now, loc, call, cas, trace>>
  /\ History

\* let n = read_u32_le(&mut &response[0..4]).unwrap()
PingReadLen(p) ==
  /\ pc[p] = "precv_len"
  /\ loc' = [loc EXCEPT ![p].n = ReadU32Le(SubSeq(data[loc[p].rx], 1, 4))]
  /\ pc' = [pc EXCEPT ![p] = "precv_slice"]
  /\ UNCHANGED <<link, created, state, data, now, call, cas, trace>>
  /\ History

\* A slip: the text is taken up to the last "}" of the window, not to n + 4.
PingDecode_ToLastBrace(p) ==
  /\ pc[p] = "precv_slice"
  /\ LET w == data[loc[p].rx]
         braces == {i \in 5..WindowSize : w[i] = 125}
         end == IF braces = {} THEN loc[p].n + 4
                ELSE CHOOSE i \in braces : \A j \in braces : j <= i
         m == FromJson(SubSeq(w, 5, end))
     IN IF end > WindowSize
        THEN /\ pc' = [pc EXCEPT ![p] = "panic_slice"]
             /\ loc' = loc
        ELSE IF m = JsonError
        THEN /\ pc' = [pc EXCEPT ![p] = "panic_json"]
             /\ loc' = loc
        ELSE /\ pc' = [pc EXCEPT ![p] = "precv_end"]
             /\ loc' = [loc EXCEPT ![p].value = m, ![p].n = 0]
  /\ UNCHANGED <<link, created, state, data, now, call, cas, trace>>
  /\ History

\* &response[4..n + 4] (the slicing panics past the window), from_utf8(v).unwrap() and
\* serde_json::from_str(result).unwrap().
PingDecode(p) ==
  /\ pc[p] = "precv_slice"
  /\ LET end == loc[p].n + 4
         m == FromJson(SubSeq(data[loc[p].rx], 5, end))
     IN IF end > WindowSize
        THEN /\ pc' = [pc EXCEPT ![p] = "panic_slice"]
             /\ loc' = loc
        ELSE IF m = JsonError
        THEN /\ pc' = [pc EXCEPT ![p] = "panic_json"]
             /\ loc' = loc
        ELSE /\ pc' = [pc EXCEPT ![p] = "precv_end"]
             /\ loc' = [loc EXCEPT ![p].value = m, ![p].n = 0]
  /\ UNCHANGED <<link, created, state, data, now, call, cas, trace>>
  /\ History

\* shmem_ping_send(m, sender, None), the caller going on at `next`.
PingSend(p, next) ==
  \/ SenderBegin(p, "psend_begin", "psend_len")
  \/ PingWriteLen(p)
  \/ PingCopy(p)
  \/ SenderEnd(p, "psend_end", next)

\* shmem_ping_receive(receiver, None), the caller going on at `next`.
PingReceive(p, next) ==
  \/ ReceiverBegin(p, "precv_begin", "precv_len")
  \/ PingReadLen(p)
  \/ PingDecode(p)
  \/ ReceiverEnd(p, "precv_end", next)

(* ------------------------------------------------------------------ *)
(* The duplex set-up: the client of loopback_latency (ShmemSerdePing)  *)
(* and the echo server shmem_ping_server, on the channels "input" and  *)
(* "output".                                                           *)
(* ------------------------------------------------------------------ *)
Client == "client"
Server == "server"
Input == "shmem_ping_server_input.shmem"
Output == "shmem_ping_server_output.shmem"

\* The indices the client pings with: the least, a two-digit one, and 2^31 - 1.
Indices == {0, 12, 2147483647}

Pings == SelectSeq(trace, LAMBDA e : e.op = "ping")

\* remove_file(name), its result dropped.
RemoveFile(p, at, n, next) ==
  /\ pc[p] = at
  /\ link' = [link EXCEPT ![n] = NoRegion]
  /\ pc' = [pc EXCEPT ![p] = next]
  /\ UNCHANGED <<created, state, data, now, loc, call, cas, trace>>
  /\ History

\* test: t.ping(PingMessage { sent_at: SystemTime::now(), index }), and in ping the
\* serialisation of m.
ClientPing(p, m) ==
  /\ pc[p] = "ready"
  /\ Len(Pings) < MaxPings
  /\ loc' = [loc EXCEPT ![p].request = m, ![p].value = m, ![p].spin_count = 0]
  /\ pc' = [pc EXCEPT ![p] = "psend_begin"]
  /\ UNCHANGED <<link, created, state, data, now, call, cas, trace>>
  /\ History

\* ping returns what shmem_ping_receive decoded; test: assert_eq!(result.index, index).
ClientPingReturn(p) ==
  /\ pc[p] = "ping_return"
  /\ pc' = [pc EXCEPT ![p] =
               IF loc[p].value.index = loc[p].request.index THEN "ready" ELSE "panic_assert"]
  /\ trace' = Append(trace, Event(p, "ping", "Ok", <<loc[p].request, loc[p].value>>))
  /\ loc' = [loc EXCEPT ![p].request = NoValue, ![p].value = NoValue]
  /\ UNCHANGED <<link, created, state, data, now, call, cas>>
  /\ History

\* main of the server: the head of its loop.
ServerLoop(p) ==
  /\ pc[p] = "ready"
  /\ loc' = [loc EXCEPT ![p].value = NoValue, ![p].spin_count = 0]
  /\ pc' = [pc EXCEPT ![p] = "precv_begin"]
  /\ UNCHANGED <<link, created, state, data, now, call, cas, trace>>
  /\ History

ZeroWindow == [i \in 1..WindowSize |-> 0]

PingInit ==
  /\ link = [n \in {Input, Output} |-> NoRegion]
  /\ created = {}
  /\ state = [r \in {Client, Server} \X {Input, Output} |-> STATE_UNINITIALIZED]
  /\ data = [r \in {Client, Server} \X {Input, Output} |-> ZeroWindow]
  /\ now = 0
  /\ pc = [p \in {Client, Server} |-> IF p = Server THEN "remove_input" ELSE "start"]
  /\ loc = [p \in {Client, Server} |-> NoLocals]
  /\ call = [p \in {Client, Server} |-> NoCall]
  /\ cas = [ok |-> 0, failed |-> 0]
  /\ trace = <<>>
  /\ timeouts = [p \in {Client, Server} |-> FALSE]
  /\ dirty = [p \in {Client, Server} |-> FALSE]

\* ShmemSerdePing::new(input, output), then test's calls of ping.
ClientStep ==
  \/ OpenCall(Client, "start", "tx", Input, "start_rx")
  \/ OpenCall(Client, "start_rx", "rx", Output, "ready")
  \/ Open(Client)
  \/ \E i \in Indices : ClientPing(Client, PingMessage(now, i))
  \/ PingSend(Client, "precv_begin")
  \/ PingReceive(Client, "ping_return")
  \/ ClientPingReturn(Client)

\* main of shmem_ping_server.
ServerStep ==
  \/ RemoveFile(Server, "remove_input", Input, "remove_output")
  \/ RemoveFile(Server, "remove_output", Output, "start")
  \/ OpenCall(Server, "start", "tx", Output, "start_rx")
  \/ OpenCall(Server, "start_rx", "rx", Input, "ready")
  \/ Open(Server)
  \/ ServerLoop(Server)
  \/ PingReceive(Server, "psend_begin")
  \/ PingSend(Server, "precv_begin")

PingNext == ClientStep \/ ServerStep

PingSpec == PingInit /\ [][PingNext]_vars

(* ------------------------------------------------------------------ *)
(* One channel "x" with two sender handles, each used by its own       *)
(* thread for one send, and one receiver. The callers either guard     *)
(* their calls of send with a mutex of their own or use none: which,   *)
(* is fixed at the start.                                              *)
(* ------------------------------------------------------------------ *)
Snd2 == "snd2"
Mutex == "mutex"
Senders == {Snd, Snd2}

\* The payload of each sender's one message.
PayloadOf(p) == IF p = Snd THEN 1 ELSE 2

HasSent(p) == \E i \in 1..Len(SentEvents) : SentEvents[i].proc = p

SharedInit ==
  /\ link = [n \in {X} |-> NoRegion]
  /\ created = {}
  /\ state = [r \in (Senders \cup {Rcv}) \X {X} |-> STATE_UNINITIALIZED]
  /\ data = [r \in (Senders \cup {Rcv}) \X {X} |-> NoValue]
  /\ now = 0
  /\ \E m \in {"none", "free"} :
       pc = [p \in Senders \cup {Rcv, Mutex} |-> IF p = Mutex THEN m ELSE "start"]
  /\ loc = [p \in Senders \cup {Rcv, Mutex} |-> NoLocals]
  /\ call = [p \in Senders \cup {Rcv, Mutex} |-> NoCall]
  /\ cas = [ok |-> 0, failed |-> 0]
  /\ trace = <<>>
  /\ timeouts = [p \in Senders \cup {Rcv, Mutex} |-> FALSE]
  /\ dirty = [p \in Senders \cup {Rcv, Mutex} |-> FALSE]

\* The caller of p takes the mutex before its call of send.
Acquire(p) ==
  /\ pc[p] = "ready"
  /\ ~HasSent(p)
  /\ pc[Mutex] = "free"
  /\ pc' = [pc EXCEPT ![Mutex] = p]
  /\ UNCHANGED <<link, created, state, data, now, loc, call, cas, trace>>
  /\ History

\* The caller of p gives the mutex back when its send has returned.
Release(p) ==
  /\ pc[p] = "ready"
  /\ HasSent(p)
  /\ pc[Mutex] = p
  /\ pc' = [pc EXCEPT ![Mutex] = "free"]
  /\ UNCHANGED <<link, created, state, data, now, loc, call, cas, trace>>
  /\ History

\* The one call of send through the handle of p: under the mutex, when there is one.
SharedSendCall(p) ==
  /\ pc[Mutex] \in {"none", p}
  /\ ~HasSent(p)
  /\ SendCall(p, PayloadOf(p), Infinite)

SharedSenderStep(p) ==
  \/ OpenCall(p, "start", "tx", X, "ready")
  \/ Open(p)
  \/ Acquire(p)
  \/ SharedSendCall(p)
  \/ Send(p)
  \/ Release(p)

SharedNext == (\E p \in Senders : SharedSenderStep(p)) \/ ReceiverStep({Infinite})

SharedSpec == SharedInit /\ [][SharedNext]_vars

(* ------------------------------------------------------------------ *)
(* One channel "x" carrying envelopes: a process that calls            *)
(* shmem_ping_send with messages of any size, and a process that calls *)
(* shmem_ping_receive.                                                 *)
(* ------------------------------------------------------------------ *)
\* The messages sent: the shortest text, a long one, one whose envelope is
\* WindowSize bytes exactly when WindowSize is 20, and two whose envelopes are longer.
Payloads ==
  {PingMessage(0, 0), PingMessage(0, 2147483647), PingMessage(2147483647, 123),
   PingMessage(2147483647, 1234), PingMessage(2147483647, 2147483647)}

\* json.len() + 4 is within the window.
Fits(m) == Len(ToJson(m)) + 4 <= WindowSize

\* A call of shmem_ping_send(m, sender, None).
EnvelopeSendCall(p, m) ==
  /\ pc[p] = "ready"
  /\ loc[p].tx # NoRegion
  /\ Len(SentEvents) < MaxPings
  /\ loc' = [loc EXCEPT ![p].value = m, ![p].spin_count = 0]
  /\ pc' = [pc EXCEPT ![p] = "psend_begin"]
  /\ UNCHANGED <<link, created, state, data, now, call, cas, trace>>
  /\ History

\* A call of shmem_ping_receive(receiver, None).
EnvelopeReceiveCall(p) ==
  /\ pc[p] = "ready"
  /\ loc[p].rx # NoRegion
  /\ Len(ReceivedEvents) < MaxPings
  /\ loc' = [loc EXCEPT ![p].value = NoValue, ![p].spin_count = 0]
  /\ pc' = [pc EXCEPT ![p] = "precv_begin"]
  /\ UNCHANGED <<link, created, state, data, now, call, cas, trace>>
  /\ History

EnvelopeInit ==
  /\ link = [n \in {X} |-> NoRegion]
  /\ created = {}
  /\ state = [r \in {Snd, Rcv} \X {X} |-> STATE_UNINITIALIZED]
  /\ data = [r \in {Snd, Rcv} \X {X} |-> ZeroWindow]
  /\ now = 0
  /\ pc = [p \in {Snd, Rcv} |-> "start"]
  /\ loc = [p \in {Snd, Rcv} |-> NoLocals]
  /\ call = [p \in {Snd, Rcv} |-> NoCall]
  /\ cas = [ok |-> 0, failed |-> 0]
  /\ trace = <<>>
  /\ timeouts = [p \in {Snd, Rcv} |-> FALSE]
  /\ dirty = [p \in {Snd, Rcv} |-> FALSE]

EnvelopeSenderStep ==
  \/ OpenCall(Snd, "start", "tx", X, "ready")
  \/ Open(Snd)
  \/ \E m \in Payloads : EnvelopeSendCall(Snd, m)
  \/ PingSend(Snd, "ready")

EnvelopeReceiverStep ==
  \/ OpenCall(Rcv, "start", "rx", X, "ready")
  \/ Open(Rcv)
  \/ EnvelopeReceiveCall(Rcv)
  \/ PingReceive(Rcv, "ready")

EnvelopeNext == EnvelopeSenderStep \/ EnvelopeReceiverStep

EnvelopeSpec == EnvelopeInit /\ [][EnvelopeNext]_vars

(* ------------------------------------------------------------------ *)
(* The same two processes, started either on a fresh name or on a link *)
(* file that is already there and names a region left READY_TO_READ by *)
(* a writer other than shmem_ping_send of this build, with a length    *)
(* prefix that points past the window.                                 *)
(* ------------------------------------------------------------------ *)
\* The prefixes of such a region: past the window by one byte, and by far.
StaleLens == {WindowSize - 3, 16777216}

StaleWindow(n) == CopyInto(ZeroWindow, 0, U32Le(n))

FramingInit ==
  \/ EnvelopeInit
  \/ /\ link = [n \in {X} |-> <<Snd, X>>]
     /\ created = {<<Snd, X>>}
     /\ state = [r \in {Snd, Rcv} \X {X} |->
                  IF r = <<Snd, X>> THEN STATE_READY_TO_READ ELSE STATE_UNINITIALIZED]
     /\ \E n \in StaleLens :
          data = [r \in {Snd, Rcv} \X {X} |->
                   IF r = <<Snd, X>> THEN StaleWindow(n) ELSE ZeroWindow]
     /\ now = 0
     /\ pc = [p \in {Snd, Rcv} |-> "start"]
     /\ loc = [p \in {Snd, Rcv} |-> NoLocals]
     /\ call = [p \in {Snd, Rcv} |-> NoCall]
     /\ cas = [ok |-> 0, failed |-> 0]
     /\ trace = <<>>
     /\ timeouts = [p \in {Snd, Rcv} |-> FALSE]
     /\ dirty = [p \in {Snd, Rcv} |-> FALSE]

FramingSpec == FramingInit /\ [][EnvelopeNext]_vars

(* ------------------------------------------------------------------ *)
(* The duplex set-up with a client that does not keep to one request,  *)
(* one response: it calls shmem_ping_send and shmem_ping_receive in    *)
(* any order. The server is shmem_ping_server.                         *)
(* ------------------------------------------------------------------ *)
\* The sends and the receives that p has completed.
SendsOf(p) == SelectSeq(trace, LAMBDA e : e.op = "send" /\ e.proc = p)
ReceivesOf(p) == SelectSeq(trace, LAMBDA e : e.op = "receive" /\ e.proc = p)

\* shmem_ping_send(&m, &mut self.sender, None) of the next request; as in test, the
\* index of the k-th request is k - 1.
PipelineSendCall(p) ==
  /\ pc[p] = "ready"
  /\ Len(SendsOf(p)) < MaxPings
  /\ loc' = [loc EXCEPT ![p].value = PingMessage(now, Len(SendsOf(p))), ![p].spin_count = 0]
  /\ pc' = [pc EXCEPT ![p] = "psend_begin"]
  /\ UNCHANGED <<link, created, state, data, now, call, cas, trace>>
  /\ History

\* shmem_ping_receive(&mut self.receiver, None) of the next response.
PipelineReceiveCall(p) ==
  /\ pc[p] = "ready"
  /\ Len(ReceivesOf(p)) < MaxPings
  /\ loc' = [loc EXCEPT ![p].value = NoValue, ![p].spin_count = 0]
  /\ pc' = [pc EXCEPT ![p] = "precv_begin"]
  /\ UNCHANGED <<link, created, state, data, now, call, cas, trace>>
  /\ History

PipelineClientStep ==
  \/ OpenCall(Client, "start", "tx", Input, "start_rx")
  \/ OpenCall(Client, "start_rx", "rx", Output, "ready")
  \/ Open(Client)
  \/ PipelineSendCall(Client)
  \/ PingSend(Client, "ready")
  \/ PipelineReceiveCall(Client)
  \/ PingReceive(Client, "ready")

PipelineNext == PipelineClientStep \/ ServerStep

PipelineSpec == PingInit /\ [][PipelineNext]_vars

(* ------------------------------------------------------------------ *)
(* What the statements below speak of                                  *)
(* ------------------------------------------------------------------ *)
Procs == DOMAIN pc
Regions == DOMAIN state

Initialised(s) == s \in {STATE_READY_TO_WRITE, STATE_READY_TO_READ}

\* p is in the wait loop of send or receive.
InWait(p) == pc[p] \in {"send_poll", "send_deadline", "receive_poll", "receive_deadline"}

\* The timeout of p's current call is Val(dur), and the instant start + dur.
Bounded(p) == call[p].timeout[1] = "Val"
Deadline(p) == call[p].start + call[p].timeout[2]

\* Both processes of the one-channel set-up are back from open_shmem.
AllOpened ==
  \A p \in Procs :
    pc[p] \notin {"start", "open_create", "open_attach", "open_load", "open_cas", "panic_open"}

\* p is in open_shmem.
OpenPcs == {"open_create", "open_attach", "open_load", "open_cas"}

\* p is past the wait loop of send or receive: its poll has seen the expected state.
PastWait(p) == pc[p] \in {"send_write", "send_store", "receive_read", "receive_store"}

\* The length prefix the window of region r holds.
PrefixOf(r) == ReadU32Le(SubSeq(data[r], 1, 4))

\* The messages committed to region r and not yet taken from it.
Unread(r) ==
  Cardinality({i \in 1..Len(trace) : trace[i].op = "send" /\ loc[trace[i].proc].tx = r})
    - Cardinality({i \in 1..Len(trace) : trace[i].op = "receive" /\ loc[trace[i].proc].rx = r})

\* p holds the writable window of its sender.
Writing(p) == pc[p] \in {"psend_len", "psend_copy", "psend_end"}

IsPrefix(s, t) == Len(s) <= Len(t) /\ \A i \in 1..Len(s) : s[i] = t[i]

(* ------------------------------------------------------------------ *)
(* C1                                                                  *)
(* ------------------------------------------------------------------ *)
\* C1: with one sender and one receiver on a channel, the sender writes the data
\* window only while the state cell is READY_TO_WRITE, the receiver reads it only
\* while the cell is READY_TO_READ, and the write and the read never overlap.
C1_TurnGuardsWindow ==
  /\ \A p \in Procs : pc[p] = "send_write" => state[loc[p].tx] = STATE_READY_TO_WRITE
  /\ \A p \in Procs : pc[p] = "receive_read" => state[loc[p].rx] = STATE_READY_TO_READ
  /\ \A p, q \in Procs :
       ~(pc[p] = "send_write" /\ pc[q] = "receive_read" /\ loc[p].tx = loc[q].rx)

\* The sender is about to write its second message while the receiver, which has
\* taken the first, waits for it.
C1_Witness ==
  /\ pc[Snd] = "send_write"
  /\ pc[Rcv] \in {"receive_poll", "receive_deadline"}
  /\ Len(Received) = 1

(* ------------------------------------------------------------------ *)
(* C2                                                                  *)
(* ------------------------------------------------------------------ *)
\* C2: the values receive has returned are, in order, the values of the first sends
\* that completed, and after N sends and N receives the two sequences are equal:
\* same order, no duplication, no loss.
C2_InOrderExactlyOnce ==
  /\ IsPrefix(Received, Sent)
  /\ Len(Received) = Len(Sent) => Received = Sent
  /\ \A p \in Procs :
       pc[p] = "receive_store"
         => Len(Sent) > Len(Received) /\ loc[p].value = Sent[Len(Received) + 1]

\* N = MaxMsgs sends and receives have completed, the messages differing.
C2_Witness ==
  /\ Len(Sent) = MaxMsgs
  /\ Len(Received) = MaxMsgs
  /\ Sent[1] # Sent[MaxMsgs]

(* ------------------------------------------------------------------ *)
(* C3                                                                  *)
(* ------------------------------------------------------------------ *)
\* C3: an initialised state cell holds READY_TO_WRITE or READY_TO_READ for ever after;
\* it goes from READY_TO_WRITE to READY_TO_READ only in the step in which a sender
\* completes a send, from READY_TO_READ to READY_TO_WRITE only in the step in which
\* a receiver completes a receive, and it changes in no other way.
C3_StrictAlternation ==
  [][\A r \in Regions :
       /\ Initialised(state[r]) => Initialised(state'[r])
       /\ (state[r] = STATE_READY_TO_WRITE /\ state'[r] = STATE_READY_TO_READ)
            => \E p \in Procs : loc[p].tx = r /\ pc[p] = "send_store" /\ pc'[p] = "ready"
       /\ (state[r] = STATE_READY_TO_READ /\ state'[r] = STATE_READY_TO_WRITE)
            => \E p \in Procs : loc[p].rx = r /\ pc[p] = "receive_store" /\ pc'[p] = "ready"
       /\ (~Initialised(state[r]) /\ state'[r] # state[r])
            => state'[r] = STATE_READY_TO_WRITE /\ \E p \in Procs : pc[p] = "open_cas"
    ]_vars

\* The cell has gone READY_TO_WRITE, READY_TO_READ, READY_TO_WRITE, READY_TO_READ.
C3_Witness ==
  /\ Len(Sent) = 2
  /\ Len(Received) = 1
  /\ \E r \in created : state[r] = STATE_READY_TO_READ

(* ------------------------------------------------------------------ *)
(* C4                                                                  *)
(* ------------------------------------------------------------------ *)
\* C4: completed sends and receives alternate, starting with a send, so between two
\* successive completed sends there is a completed receive and at most one message
\* is in flight; a sender is past its wait loop only when every message sent so far
\* has been received.
C4_OneInFlight ==
  /\ Len(Sent) - Len(Received) \in {0, 1}
  /\ \A i \in 1..Len(trace) : trace[i].op = (IF i % 2 = 1 THEN "send" ELSE "receive")
  /\ \A p \in Procs : pc[p] \in {"send_write", "send_store"} => Len(Sent) = Len(Received)

\* A second send spins while the first message has not been received.
C4_Witness ==
  /\ pc[Snd] = "send_deadline"
  /\ loc[Snd].value = 2
  /\ Len(Sent) = 1
  /\ Len(Received) = 0

(* ------------------------------------------------------------------ *)
(* C5                                                                  *)
(* ------------------------------------------------------------------ *)
\* C5: when two processes run open concurrently on one fresh name, both opens
\* return; one region at most is ever created and one initialising compare_exchange
\* at most succeeds, and exactly one of each once both opens have returned, the two
\* handles then mapping the region the link names; and once both have returned, as
\* long as no send has completed, the state cell is READY_TO_WRITE.
C5_OpenRace ==
  /\ [](Cardinality(created) <= 1 /\ cas.ok <= 1)
  /\ [](AllOpened =>
         /\ Cardinality(created) = 1
         /\ cas.ok = 1
         /\ loc[Snd].tx = link[X]
         /\ loc[Rcv].rx = link[X])
  /\ []((AllOpened /\ trace = <<>>) => state[link[X]] = STATE_READY_TO_WRITE)
  /\ <>AllOpened

\* Both opens have returned after a race: both saw the fresh cell, one lost the
\* compare_exchange to the other; nothing has been sent.
C5_Witness ==
  /\ AllOpened
  /\ cas.ok = 1
  /\ cas.failed = 1
  /\ trace = <<>>

(* ------------------------------------------------------------------ *)
(* C6                                                                  *)
(* ------------------------------------------------------------------ *)
\* C6: a call of send or receive that returns Timeout has changed no state cell and
\* no data window, in the returning step or before it; and in a run with timeouts
\* the values received are still, in order, the values sent.
C6_TimeoutTouchesNothing ==
  /\ [][\A p \in Procs : TimeoutReturn(p) => ~dirty[p] /\ state' = state /\ data' = data]_vars
  /\ []((\E p \in Procs : timeouts[p]) => IsPrefix(Received, Sent))

\* A receive has timed out, no send has, and every message was delivered: the last
\* receive followed the timeout.
C6_Witness ==
  /\ timeouts[Rcv]
  /\ ~timeouts[Snd]
  /\ Len(Received) = MaxMsgs
  /\ Received = Sent

(* ------------------------------------------------------------------ *)
(* C10                                                                 *)
(* ------------------------------------------------------------------ *)
\* C10: throughout a bounded wait timeout_at is the clock at the call plus the
\* duration; Timeout is returned only when the clock read in the loop is past that
\* instant; and a deadline check that reads a clock past it returns Timeout.
C10_DeadlineFixedAtStart ==
  /\ [](\A p \in Procs : (InWait(p) /\ Bounded(p)) => loc[p].timeout_at = {Deadline(p)})
  /\ [][\A p \in Procs : TimeoutReturn(p) => Bounded(p) /\ now > Deadline(p)]_vars
  /\ [][\A p \in Procs :
         (pc[p] \in DeadlinePcs /\ pc'[p] # pc[p] /\ Bounded(p) /\ now > Deadline(p))
           => TimeoutReturn(p)]_vars

\* A bounded wait that has polled more than once finds the clock past its deadline.
C10_Witness ==
  \E p \in Procs :
    /\ pc[p] \in DeadlinePcs
    /\ Bounded(p)
    /\ call[p].timeout[2] > 0
    /\ loc[p].spin_count >= 1
    /\ now > Deadline(p)

(* ------------------------------------------------------------------ *)
(* C7                                                                  *)
(* ------------------------------------------------------------------ *)
\* C7: in the duplex set-up every ping that returns returns the index it was called
\* with, so the k-th response is the echo of the k-th request; the assertion of the
\* test never fails, and neither side ever fails to decode what the other sent.
C7_PingEchoes ==
  /\ \A i \in 1..Len(Pings) : Pings[i].val[2] = Pings[i].val[1]
  /\ \A p \in Procs : pc[p] \notin {"panic_assert", "panic_slice", "panic_json"}
  /\ \A p \in Procs : pc[p] = "ping_return" => loc[p].value = loc[p].request

\* Two pings have returned, the first with the longest envelope, the second with
\* the shortest.
C7_Witness ==
  /\ Len(Pings) = 2
  /\ Pings[1].val = <<PingMessage(0, 2147483647), PingMessage(0, 2147483647)>>
  /\ Pings[2].val = <<PingMessage(0, 0), PingMessage(0, 0)>>

(* ------------------------------------------------------------------ *)
(* C8                                                                  *)
(* ------------------------------------------------------------------ *)
\* C8: once a sender has dropped a window it obtained and did not commit, the state
\* cell is READY_TO_WRITE for ever, no receive completes any more, and a receiver
\* waiting with the Infinite timeout stays in its wait loop.
C8_AbandonedWindowSticks ==
  /\ [](\A p \in Procs : pc[p] = "abandoned" => state[loc[p].tx] = STATE_READY_TO_WRITE)
  /\ [][\A p, q \in Procs :
         (pc[p] = "abandoned" /\ loc[q].rx = loc[p].tx)
           => /\ Received' = Received
              /\ pc'[q] \notin {"receive_read", "receive_store"}
              /\ (InWait(q) /\ ~Bounded(q)) => InWait(q)']_vars

\* The window of the second message was dropped after its payload was written; the
\* receiver has spun on the cell to the bound of its spin count, with no deadline.
C8_Witness ==
  /\ pc[Snd] = "abandoned"
  /\ \E r \in created : data[r] = 2
  /\ pc[Rcv] = "receive_poll"
  /\ ~Bounded(Rcv)
  /\ loc[Rcv].spin_count = MaxSpin

(* ------------------------------------------------------------------ *)
(* C9                                                                  *)
(* ------------------------------------------------------------------ *)
\* C9: with both processes scheduled weakly fairly, calling with the Infinite
\* timeout and completing their turns, the k-th send, once called, completes, and
\* the k-th message, once sent, is returned by the k-th receive.
C9_HandshakeLive ==
  \A k \in 1..MaxMsgs :
    /\ (pc[Snd] = "send_poll" /\ loc[Snd].value = k) ~> (Len(Sent) >= k)
    /\ (Len(Sent) >= k) ~> (Len(Sent) >= k /\ Len(Received) >= k /\ Received[k] = Sent[k])

\* Every message has gone through, and both processes are between calls.
C9_Witness ==
  /\ Len(Sent) = MaxMsgs
  /\ Received = Sent
  /\ \A p \in Procs : pc[p] = "ready"

(* ------------------------------------------------------------------ *)
(* C11                                                                 *)
(* ------------------------------------------------------------------ *)
\* C11: a call of send or receive with the Infinite timeout has no deadline, never
\* returns Timeout, and leaves its wait loop only by a poll that reads the expected
\* state, however many polls fail and however far the clock runs.
C11_InfiniteNeverTimesOut ==
  /\ [](\A p \in Procs : (InWait(p) /\ ~Bounded(p)) => loc[p].timeout_at = {})
  /\ [][\A p \in Procs : TimeoutReturn(p) => call[p].timeout # Infinite]_vars
  /\ [][\A p \in Procs :
         (InWait(p) /\ ~Bounded(p) /\ pc'[p] # pc[p])
           => \/ InWait(p)'
              \/ /\ pc[p] = "send_poll"
                 /\ state[loc[p].tx] = STATE_READY_TO_WRITE
                 /\ pc'[p] = "send_write"
              \/ /\ pc[p] = "receive_poll"
                 /\ state[loc[p].rx] = STATE_READY_TO_READ
                 /\ pc'[p] = "receive_read"]_vars

\* A wait with the Infinite timeout is still polling when its spin count is at the
\* bound and the clock at its end.
C11_Witness ==
  \E p \in Procs :
    /\ pc[p] \in {"send_poll", "receive_poll"}
    /\ ~Bounded(p)
    /\ loc[p].spin_count = MaxSpin
    /\ now = MaxTime

(* ------------------------------------------------------------------ *)
(* C15                                                                 *)
(* ------------------------------------------------------------------ *)
\* C15: no step of open_shmem changes a state cell that holds READY_TO_WRITE or
\* READY_TO_READ, nor the data window beside it, whatever the other process does
\* meanwhile; an initialising compare_exchange succeeds only on a cell that is not
\* initialised.
C15_OpenLeavesInitialised ==
  /\ [][\A p \in Procs :
         (pc[p] \in OpenPcs /\ pc'[p] # pc[p])
           => \A r \in Regions :
                Initialised(state[r]) => state'[r] = state[r] /\ data'[r] = data[r]]_vars
  /\ [][cas'.ok > cas.ok
          => \E p \in Procs :
               pc[p] = "open_cas" /\ ~Initialised(state[RegionOf(p, loc[p].handle)])]_vars

\* A late opener that read the fresh cell is about to compare_exchange while the
\* first message is in flight.
C15_Witness ==
  /\ pc[Rcv] = "open_cas"
  /\ loc[Rcv].state_before = STATE_UNINITIALIZED
  /\ state[loc[Rcv].rx] = STATE_READY_TO_READ
  /\ data[loc[Rcv].rx] = 1
  /\ Len(Sent) = 1

(* ------------------------------------------------------------------ *)
(* C17                                                                 *)
(* ------------------------------------------------------------------ *)
\* C17: a poll that reads the expected state leaves the wait loop, whatever the clock
\* and the deadline, and with no failed poll before it the spin count is 0; the
\* deadline is looked at only after a poll that read the wrong state, so Timeout is
\* returned only then.
C17_StateBeforeDeadline ==
  /\ [][\A p \in Procs :
         /\ (pc[p] = "send_poll" /\ pc'[p] # pc[p] /\ state[loc[p].tx] = STATE_READY_TO_WRITE)
              => pc'[p] = "send_write" /\ loc'[p].spin_count = loc[p].spin_count
         /\ (pc[p] = "receive_poll" /\ pc'[p] # pc[p] /\ state[loc[p].rx] = STATE_READY_TO_READ)
              => pc'[p] = "receive_read" /\ loc'[p].spin_count = loc[p].spin_count
         /\ TimeoutReturn(p) => call[p].polls = loc[p].spin_count + 1]_vars
  /\ [](\A p \in Procs : pc[p] \in DeadlinePcs => call[p].polls = loc[p].spin_count + 1)
  /\ [](\A p \in Procs : (PastWait(p) /\ call[p].polls = 0) => loc[p].spin_count = 0)

\* A call with a duration of zero is past its wait loop by its first poll, made when
\* the clock was already past the deadline.
C17_Witness ==
  \E p \in Procs :
    /\ pc[p] \in {"send_write", "receive_read"}
    /\ Bounded(p)
    /\ call[p].timeout[2] = 0
    /\ now > Deadline(p)
    /\ call[p].polls = 0
    /\ loc[p].spin_count = 0

(* ------------------------------------------------------------------ *)
(* C20                                                                 *)
(* ------------------------------------------------------------------ *)
\* C20: the spin count a successful send or receive returns is the number of its
\* polls that read the wrong state; the step that counts a spin changes no state
\* cell, no data window, no value and completes no call; and the value a receive
\* returns is the content of the data window, whatever the spin count.
C20_SpinCountCountsFailedPolls ==
  /\ [](\A p \in Procs : PastWait(p) => loc[p].spin_count = call[p].polls)
  /\ [][\A p \in Procs :
         loc'[p].spin_count > loc[p].spin_count
           => /\ state' = state
              /\ data' = data
              /\ loc'[p].value = loc[p].value
              /\ trace' = trace]_vars
  /\ [](\A p \in Procs : pc[p] = "receive_store" => loc[p].value = data[loc[p].rx])

\* A receive is about to return the second message with a spin count at the bound.
C20_Witness ==
  /\ pc[Rcv] = "receive_store"
  /\ loc[Rcv].spin_count = MaxSpin
  /\ call[Rcv].polls = MaxSpin
  /\ loc[Rcv].value = 2

(* ------------------------------------------------------------------ *)
(* C14                                                                 *)
(* ------------------------------------------------------------------ *)
\* C14: with two sender handles on one channel, when the callers serialise their
\* sends (here: by a mutex) the two senders are never past the READY_TO_WRITE check
\* together, at most one message is in flight, and the values received are, in
\* order, the values sent; without the serialisation none of this is kept (the
\* witness: both sends returned Ok, one receive took the second payload, the
\* channel is empty and the first payload is gone).
C14_SerialisedSendersKeepOrder ==
  pc[Mutex] # "none"
    => /\ ~(PastWait(Snd) /\ PastWait(Snd2))
       /\ Len(Sent) - Len(Received) \in {0, 1}
       /\ IsPrefix(Received, Sent)
       /\ pc[Rcv] = "receive_store"
            => Len(Sent) > Len(Received) /\ loc[Rcv].value = Sent[Len(Received) + 1]

\* Without serialisation both senders passed the check of one READY_TO_WRITE: both
\* sends have returned Ok, the receiver has taken one message, the second one
\* written, and the cell is READY_TO_WRITE; the other message is lost.
C14_Witness ==
  /\ pc[Mutex] = "none"
  /\ Len(Sent) = 2
  /\ Len(Received) = 1
  /\ \A p \in Senders \cup {Rcv} : pc[p] = "ready"
  /\ state[link[X]] = STATE_READY_TO_WRITE
  /\ Received[1] = Sent[2]
  /\ data[link[X]] = Sent[2]

(* ------------------------------------------------------------------ *)
(* C16                                                                 *)
(* ------------------------------------------------------------------ *)
\* p has returned from both of its opens.
Attached(p) ==
  /\ pc[p] \notin {"remove_input", "remove_output", "start", "start_rx", "panic_open"} \cup OpenPcs
  /\ loc[p].tx # NoRegion
  /\ loc[p].rx # NoRegion

\* C16: once the client and the server have both opened their two handles, the
\* client's sender and the server's receiver map one region, and the server's
\* sender and the client's receiver map one region, whichever of the two started
\* first.
C16_SameRegions ==
  (Attached(Client) /\ Attached(Server))
    => loc[Client].tx = loc[Server].rx /\ loc[Client].rx = loc[Server].tx

(* ------------------------------------------------------------------ *)
(* C12                                                                 *)
(* ------------------------------------------------------------------ *)
\* C12: for the messages whose envelope fits the window, the window shmem_ping_send
\* commits holds the 4-byte little-endian length L of the text and then the L bytes
\* of the text; shmem_ping_receive never fails to decode it; and the messages it
\* returns are, one for one, the messages sent.
C12_EnvelopeRoundTrip ==
  /\ \A p \in Procs :
       pc[p] = "psend_end"
         => LET json == ToJson(loc[p].value)
            IN /\ Fits(loc[p].value)
               /\ SubSeq(data[loc[p].tx], 1, 4) = U32Le(Len(json))
               /\ SubSeq(data[loc[p].tx], 5, 4 + Len(json)) = json
  /\ \A p \in Procs : pc[p] \notin {"panic_slice", "panic_json"}
  /\ IsPrefix(Received, Sent)

\* Two messages went through: one whose envelope fills the window to its last byte,
\* then the shortest.
C12_Witness ==
  /\ Len(Received) = 2
  /\ Received = Sent
  /\ Len(ToJson(Received[1])) + 4 = WindowSize
  /\ Received[2] = PingMessage(0, 0)

(* ------------------------------------------------------------------ *)
(* C18                                                                 *)
(* ------------------------------------------------------------------ *)
\* C18: a send changes only the bytes of the window it writes (the prefix, then the
\* L bytes of its text), nothing clears the rest; and whatever the window holds
\* past them, the length shmem_ping_receive reads and the message it decodes are
\* those of the last send, without a failure.
C18_DecodesLatestSendOnly ==
  /\ [][\A r \in Regions : \A i \in 1..WindowSize :
          data'[r][i] # data[r][i]
            => \E p \in Procs :
                 /\ loc[p].tx = r
                 /\ \/ pc[p] = "psend_len" /\ i <= 4
                    \/ pc[p] = "psend_copy" /\ 4 < i /\ i <= 4 + Len(ToJson(loc[p].value))]_vars
  /\ [](\A q \in Procs :
          pc[q] = "precv_slice"
            => Len(Sent) >= 1 /\ loc[q].n = Len(ToJson(Sent[Len(Sent)])))
  /\ [](\A q \in Procs :
          pc[q] = "precv_end" => Len(Sent) >= 1 /\ loc[q].value = Sent[Len(Sent)])
  /\ [](\A q \in Procs : pc[q] \notin {"panic_slice", "panic_json"})

\* The receiver has decoded the shortest message, sent after a long one: the window
\* still holds the end of the long text past the short envelope.
C18_Witness ==
  /\ pc[Rcv] = "precv_end"
  /\ Len(Sent) = 2
  /\ Sent[1] = PingMessage(0, 2147483647)
  /\ loc[Rcv].value = PingMessage(0, 0)
  /\ \A i \in 10..18 : data[loc[Rcv].rx][i] = ToJson(Sent[1])[i - 4]

(* ------------------------------------------------------------------ *)
(* C19                                                                 *)
(* ------------------------------------------------------------------ *)
\* C19: a send whose envelope does not fit stops at the copy, before the commit: it
\* never completes, and the state cell stays as it was for ever; so a window
\* committed by a send always holds a prefix within the window, and a receiver reads
\* a prefix past the window only from a region that was not written by these sends.
\* A receiver that reads such a prefix fails at the slice: it decodes no message,
\* returns none and does not commit.
C19_OversizeNeverCommitted ==
  /\ [](\A p \in Procs : pc[p] = "psend_end" => Fits(loc[p].value))
  /\ [](\A k \in 1..Len(Sent) : Fits(Sent[k]))
  /\ [](\A p \in Procs : pc[p] = "panic_copy" => ~Fits(loc[p].value))
  /\ [][\A p \in Procs :
         pc[p] = "panic_copy"
           => pc'[p] = "panic_copy" /\ state' = state /\ trace' = trace]_vars
  /\ [](\A r \in Regions :
          (state[r] = STATE_READY_TO_READ /\ Len(Sent) >= 1) => PrefixOf(r) + 4 <= WindowSize)
  /\ [](\A q \in Procs :
          (pc[q] = "precv_slice" /\ loc[q].n + 4 > WindowSize) => (Len(Sent) = 0 /\ cas.ok = 0))
  /\ [][\A q \in Procs :
         (pc[q] = "precv_slice" /\ loc[q].n + 4 > WindowSize /\ pc'[q] # pc[q])
           => pc'[q] = "panic_slice"]_vars
  /\ [][\A q \in Procs :
         pc[q] = "panic_slice" => pc'[q] = "panic_slice" /\ state' = state /\ trace' = trace]_vars

\* The sender has stopped at the copy of an envelope that does not fit, the prefix
\* already written; the cell is still READY_TO_WRITE and the receiver spins.
C19_Witness ==
  /\ pc[Snd] = "panic_copy"
  /\ PrefixOf(loc[Snd].tx) + 4 > WindowSize
  /\ state[loc[Snd].tx] = STATE_READY_TO_WRITE
  /\ pc[Rcv] = "precv_begin"
  /\ loc[Rcv].spin_count = MaxSpin

====
